---- MODULE Spec2Model ----
(***************************************************************************)
(* Model of the lite-2d physics subsystem: PhysicsManager (fixed-timestep  *)
(* loop, broad/narrow phase, solvers, event dispatch), RigidBody,          *)
(* Collider, CollisionDetection and CollisionResolver.                     *)
(*                                                                         *)
(* Numbers.  The program computes in IEEE doubles; the model computes in   *)
(* fixed point, every quotient truncated toward zero:                      *)
(*   time       1/6000 s     (1/60 s = 100, 0.001 s = 6, 0.5 s = 3000)      *)
(*   length     1/100 px     (0.05 px = 5)                                  *)
(*   velocity   1/100 px/s   (0.5 px/s = 50), angular 1/100 rad/s           *)
(*   mass       1/1000       (0.001 = 1), inverse mass 1/1000               *)
(*   ratios     1/100        (drag, friction, restitution)                  *)
(*   normals    1/1000                                                      *)
(***************************************************************************)
EXTENDS Integers, Sequences, FiniteSets, TLC

VARIABLES
    transform,      \* entity -> [x, y, rot]: Transform._position/_rotation
    rb,             \* entity -> RigidBody fields
    col,            \* entity -> Collider fields
    rigidbodies,    \* PhysicsManager._rigidbodies (insertion ordered)
    colliders,      \* PhysicsManager._colliders (insertion ordered)
    accumulator,    \* PhysicsManager._accumulator
    fixedTimestep,  \* PhysicsManager._fixedTimestep
    collisionPairs, \* keys of PhysicsManager._collisionPairs
    gravity,        \* PhysicsManager._gravity
    log,            \* what the last operation did, one record per sub-step
    lastEvent,      \* <<a, b>> -> kind of the last event given to a about b
    lastOp,         \* the operation performed last: [name, e, arg]
    budget          \* operations the run may still perform

vars == <<transform, rb, col, rigidbodies, colliders, accumulator,
          fixedTimestep, collisionPairs, gravity, log, lastEvent, lastOp,
          budget>>

-----------------------------------------------------------------------------
(* Units and program constants *)

TimeScale == 60 * 100
MassScale == 10 * 100
RatioScale == 10 * 10
NormScale == 10 * 100
DragScale == 6 * 100
\* largest component whose square stays in the modelled integer range
SquareCap == 300 * 100
\* divisor of the coarse comparison against MAX_VELOCITY squared
Coarse == 4 * 5
MinTimestep == 6
FIXED_TIMESTEP == 100
MaxSubSteps == 5
MAX_VELOCITY == 500000
SLEEP_THRESHOLD == 50
SLEEP_TIME == 3000
WakeSpeedSq == 100
WakeAngular == 1
CORRECTION_PERCENT == 40
CORRECTION_SLOP == 5
POSITION_ITERATIONS == 4
GravityY == 98000
MinMass == 1
DefaultMass == 1000
DefaultDrag == 10
DefaultAngularDrag == 5
DefaultFriction == 40
DefaultRestitution == 20
DefaultDensity == 1000
MinDensity == 1
DefaultBoxSize == 5000
DefaultRadius == 2500
TangentEps == 1

STATIC == "STATIC"
KINEMATIC == "KINEMATIC"
DYNAMIC == "DYNAMIC"
BodyTypes == {STATIC, KINEMATIC, DYNAMIC}

-----------------------------------------------------------------------------
(* Arithmetic *)

\* F applied to the value of v, v evaluated once
Bind(v, F(_)) == CHOOSE r \in {F(x) : x \in {v}} : TRUE

Abs(a) == IF a < 0 THEN -a ELSE a
Min(a, b) == IF a < b THEN a ELSE b
Max(a, b) == IF a > b THEN a ELSE b

\* a / b truncated toward zero, b > 0
Div(a, b) == IF a >= 0 THEN a \div b ELSE -((-a) \div b)

RECURSIVE SqrtSearch(_, _, _)
SqrtSearch(n, lo, hi) ==
    IF lo >= hi THEN lo
    ELSE LET mid == (lo + hi + 1) \div 2
         IN IF mid * mid <= n THEN SqrtSearch(n, mid, hi)
            ELSE SqrtSearch(n, lo, mid - 1)

\* a * num / den truncated toward zero, den > 0, without forming a * num
\* when a is large
MulDiv(a, num, den) ==
    LET m == Abs(a)
        n == Abs(num)
        r == (m \div den) * n + ((m % den) * n) \div den
    IN IF (a < 0) # (num < 0) THEN -r ELSE r

\* Math.sqrt, rounded down
Sqrt(n) == SqrtSearch(n, 0, Min(n, 46340))

\* a * a, saturating where the product would leave the modelled range
Square(a) == IF Abs(a) > SquareCap THEN SquareCap * SquareCap ELSE a * a

-----------------------------------------------------------------------------
(* Vector2 *)

Vec(x, y) == [x |-> x, y |-> y]
Zero == Vec(0, 0)
VAdd(u, v) == Vec(u.x + v.x, u.y + v.y)
VSub(u, v) == Vec(u.x - v.x, u.y - v.y)
\* multiply(num / den)
VScale(u, num, den) == Vec(MulDiv(u.x, num, den), MulDiv(u.y, num, den))
Dot(u, v) == u.x * v.x + u.y * v.y
LengthSquared(v) == Min(Square(v.x) + Square(v.y), SquareCap * SquareCap)
\* a normalize() that returns the vector as it is
NormalizeSkipped(v) == v

\* normalize(): a vector of length NormScale, (0,0) for the zero vector.  The
\* vector is brought to a size where the rounded-down length is precise and
\* the squares stay in range.
Normalize(v) ==
    LET big == Max(Abs(v.x), Abs(v.y))
        k == 1 + big \div SquareCap
        m == IF big = 0 THEN 1 ELSE Max(1, SquareCap \div big)
        w == Vec(Div(v.x * m, k), Div(v.y * m, k))
        len == Sqrt(w.x * w.x + w.y * w.y)
    IN IF len = 0 THEN Zero
       ELSE Vec(Div(w.x * NormScale, len), Div(w.y * NormScale, len))

-----------------------------------------------------------------------------
(* RigidBody *)

NewBody ==
    [bodyType |-> DYNAMIC, mass |-> DefaultMass, velocity |-> Zero,
     angularVelocity |-> 0, acceleration |-> Zero, force |-> Zero,
     torque |-> 0, useGravity |-> TRUE, drag |-> DefaultDrag,
     angularDrag |-> DefaultAngularDrag, gravityScale |-> 1,
     isSleeping |-> FALSE, sleepTimer |-> 0, enabled |-> TRUE,
     attached |-> TRUE]

wakeUp(b) == [b EXCEPT !.isSleeping = FALSE, !.sleepTimer = 0]

SetBodyType(b, value) ==
    LET b1 == [b EXCEPT !.bodyType = value]
    IN IF value = DYNAMIC THEN wakeUp(b1) ELSE b1

SetMass(b, value) == [b EXCEPT !.mass = Max(MinMass, value)]

InverseMassKinematicZero(b) ==
    IF b.bodyType # DYNAMIC THEN 0 ELSE (MassScale * MassScale) \div b.mass
inverseMass(b) ==
    IF b.bodyType = STATIC THEN 0 ELSE (MassScale * MassScale) \div b.mass

\* set velocity(value)
SetVelocityProp(b, value) ==
    LET b1 == [b EXCEPT !.velocity = value]
    IN IF LengthSquared(value) > WakeSpeedSq THEN wakeUp(b1) ELSE b1

\* set angularVelocity(value)
SetAngularVelocityProp(b, value) ==
    LET b1 == [b EXCEPT !.angularVelocity = value]
    IN IF Abs(value) > WakeAngular THEN wakeUp(b1) ELSE b1

AddForceAnyType(b, f) == wakeUp([b EXCEPT !.force = VAdd(b.force, f)])
addForce(b, f) ==
    IF b.bodyType # DYNAMIC THEN b
    ELSE wakeUp([b EXCEPT !.force = VAdd(b.force, f)])

AddImpulseNoWake(b, j) ==
    IF b.bodyType # DYNAMIC THEN b
    ELSE [b EXCEPT !.velocity =
              VAdd(b.velocity, VScale(j, inverseMass(b), MassScale))]
addImpulse(b, j) ==
    IF b.bodyType # DYNAMIC THEN b
    ELSE wakeUp([b EXCEPT !.velocity =
                     VAdd(b.velocity, VScale(j, inverseMass(b), MassScale))])

addTorque(b, t) ==
    IF b.bodyType # DYNAMIC THEN b
    ELSE wakeUp([b EXCEPT !.torque = b.torque + t])

setVelocity(b, v) ==
    LET b1 == [b EXCEPT !.velocity = v]
    IN IF LengthSquared(v) > WakeSpeedSq THEN wakeUp(b1) ELSE b1

setAngularVelocity(b, w) ==
    LET b1 == [b EXCEPT !.angularVelocity = w]
    IN IF Abs(w) > WakeAngular THEN wakeUp(b1) ELSE b1

updateSleep(b, dt) ==
    IF LengthSquared(b.velocity) < SLEEP_THRESHOLD * SLEEP_THRESHOLD
       /\ Abs(b.angularVelocity) < SLEEP_THRESHOLD
    THEN LET t == b.sleepTimer + dt
         IN IF t >= SLEEP_TIME
            THEN [b EXCEPT !.sleepTimer = t, !.isSleeping = TRUE,
                           !.velocity = Zero, !.angularVelocity = 0]
            ELSE [b EXCEPT !.sleepTimer = t]
    ELSE [b EXCEPT !.sleepTimer = 0]

\* max(0, 1 - drag * dt * 10), in 1/DragScale
DragFactor(drag, dt) == Max(0, DragScale - (drag * dt) \div RatioScale)

ExceedsMaxVelocity(v) ==
    LET cx == Div(v.x, Coarse)
        cy == Div(v.y, Coarse)
        cm == MAX_VELOCITY \div Coarse
    IN Abs(cx) > cm \/ Abs(cy) > cm \/ cx * cx + cy * cy > cm * cm

\* RigidBody.fixedUpdate, steps 1 to 8, on body b of an entity whose
\* transform is t
BodyIntegrate(b, t, dt) ==
    LET force1 == IF b.useGravity
                  THEN VAdd(b.force,
                            Vec(0, MulDiv(GravityY * b.gravityScale, b.mass, MassScale)))
                  ELSE b.force
        acc == VScale(force1, inverseMass(b), MassScale)
        v1 == VAdd(b.velocity, VScale(acc, dt, TimeScale))
        v2 == VScale(v1, DragFactor(b.drag, dt), DragScale)
        v3 == IF ExceedsMaxVelocity(v2)
              THEN VScale(Normalize(v2), MAX_VELOCITY, NormScale)
              ELSE v2
        disp == VScale(v3, dt, TimeScale)
        w1 == MulDiv(b.angularVelocity, DragFactor(b.angularDrag, dt), DragScale)
    IN [b |-> [b EXCEPT !.force = Zero, !.torque = 0, !.acceleration = acc,
                        !.velocity = v3, !.angularVelocity = w1],
        t |-> [t EXCEPT !.x = t.x + disp.x, !.y = t.y + disp.y,
                        !.rot = t.rot + MulDiv(w1, dt, TimeScale)]]

\* RigidBody.fixedUpdate
BodyFixedUpdate(b, t, dt) ==
    IF b.bodyType # DYNAMIC \/ b.isSleeping \/ ~b.attached
    THEN [b |-> b, t |-> t]
    ELSE Bind(BodyIntegrate(b, t, dt), LAMBDA R :
            [b |-> updateSleep(R.b, dt), t |-> R.t])

-----------------------------------------------------------------------------
(* Collider, BoxCollider, CircleCollider *)

BOX == "Box"
CIRCLE == "Circle"
NoBounds == [none |-> TRUE]

\* new PhysicsMaterial(friction, restitution, density); id tells the objects
\* apart, 0 being the shared PhysicsMaterial.default
PhysicsMaterial(id, friction, restitution, density) ==
    [id |-> id, friction |-> friction, restitution |-> restitution,
     density |-> density]

DefaultMaterial ==
    PhysicsMaterial(0, DefaultFriction, DefaultRestitution, DefaultDensity)

\* the setters of friction, restitution and density
SetFriction(m, value) == [m EXCEPT !.friction = Max(0, Min(RatioScale, value))]
SetRestitution(m, value) ==
    [m EXCEPT !.restitution = Max(0, Min(RatioScale, value))]
SetDensity(m, value) == [m EXCEPT !.density = Max(MinDensity, value)]

NewCollider(kind) ==
    [kind |-> kind, size |-> Vec(DefaultBoxSize, DefaultBoxSize),
     radius |-> DefaultRadius, isTrigger |-> FALSE,
     material |-> DefaultMaterial,
     offset |-> Zero, bounds |-> NoBounds, cur |-> {}, prev |-> {},
     enabled |-> TRUE]

\* Collider.getWorldPosition (entities of the model have no parent)
getWorldPosition(c, t) == Vec(t.x + c.offset.x, t.y + c.offset.y)

computeBounds(c, t) ==
    LET wp == getWorldPosition(c, t)
        hx == IF c.kind = BOX THEN Div(c.size.x, 2) ELSE c.radius
        hy == IF c.kind = BOX THEN Div(c.size.y, 2) ELSE c.radius
    IN [min |-> Vec(wp.x - hx, wp.y - hy), max |-> Vec(wp.x + hx, wp.y + hy)]

updateBounds(c, t) == [c EXCEPT !.bounds = computeBounds(c, t)]

\* the value getBounds returns
getBounds(c, t) == IF c.bounds = NoBounds THEN computeBounds(c, t) ELSE c.bounds

updateCollisionState(c) == [c EXCEPT !.prev = c.cur, !.cur = {}]
addCollision(c, otherId) == [c EXCEPT !.cur = c.cur \cup {otherId}]
isCollisionEnter(c, otherId) == otherId \in c.cur /\ otherId \notin c.prev
isCollisionStay(c, otherId) == otherId \in c.cur /\ otherId \in c.prev
isCollisionExit(c, otherId) == otherId \notin c.cur /\ otherId \in c.prev

-----------------------------------------------------------------------------
(* CollisionDetection: a manifold, or NoInfo *)

NoInfo == [none |-> TRUE]

CollisionInfo(a, b, point, normal, penetration) ==
    [colliderA |-> a, colliderB |-> b,
     contact |-> [point |-> point, normal |-> normal,
                  penetration |-> penetration],
     normal |-> normal, penetration |-> penetration]

\* a swap that exchanges the shapes and leaves the normal as it is
SwapKeepNormal(info) ==
    [info EXCEPT !.colliderA = info.colliderB, !.colliderB = info.colliderA]

swapColliders(info) ==
    [info EXCEPT !.colliderA = info.colliderB, !.colliderB = info.colliderA,
                 !.normal = Vec(-info.normal.x, -info.normal.y)]

\* a, b: collider ids; C: id -> collider; T: id -> transform
testAABB(a, b, C, T) ==
    LET A == getBounds(C[a], T[a])
        B == getBounds(C[b], T[b])
    IN IF A.max.x < B.min.x \/ A.min.x > B.max.x
          \/ A.max.y < B.min.y \/ A.min.y > B.max.y
       THEN NoInfo
       ELSE
       LET overlapX1 == A.max.x - B.min.x
           overlapX2 == B.max.x - A.min.x
           overlapY1 == A.max.y - B.min.y
           overlapY2 == B.max.y - A.min.y
           overlapX == Min(overlapX1, overlapX2)
           overlapY == Min(overlapY1, overlapY2)
           normal == IF overlapX < overlapY
                     THEN (IF overlapX1 < overlapX2 THEN Vec(NormScale, 0)
                           ELSE Vec(-NormScale, 0))
                     ELSE (IF overlapY1 < overlapY2 THEN Vec(0, NormScale)
                           ELSE Vec(0, -NormScale))
           penetration == IF overlapX < overlapY THEN overlapX ELSE overlapY
           \* new Vector2(x) leaves y at its default 0
           point == Vec(Div(Max(A.min.x, B.min.x) + Min(A.max.x, B.max.x), 2), 0)
       IN CollisionInfo(a, b, point, normal, penetration)

testCircleCircle(a, b, C, T) ==
    LET posA == getWorldPosition(C[a], T[a])
        posB == getWorldPosition(C[b], T[b])
        delta == VSub(posB, posA)
        distanceSquared == LengthSquared(delta)
        radiusSum == C[a].radius + C[b].radius
    IN IF distanceSquared >= radiusSum * radiusSum THEN NoInfo
       ELSE
       LET distance == Sqrt(distanceSquared)
           penetration == radiusSum - distance
           normal == IF distance > 0 THEN Normalize(delta)
                     ELSE Vec(NormScale, 0)
           point == VAdd(posA, VScale(normal, C[a].radius, NormScale))
       IN CollisionInfo(a, b, point, normal, penetration)

\* the normal of the nearest edge, pointing into the box
InwardEdgeNormal(bb, cp) ==
    LET distToLeft == cp.x - bb.min.x
        distToRight == bb.max.x - cp.x
        distToTop == cp.y - bb.min.y
        distToBottom == bb.max.y - cp.y
        minDist == Min(Min(distToLeft, distToRight),
                       Min(distToTop, distToBottom))
    IN IF minDist = distToLeft THEN Vec(NormScale, 0)
       ELSE IF minDist = distToRight THEN Vec(-NormScale, 0)
       ELSE IF minDist = distToTop THEN Vec(0, NormScale)
       ELSE Vec(0, -NormScale)

\* the nearest edge of the box bb to the point cp, as the outward normal of
\* that edge; of equally near edges the first of left, right, top, bottom
NearestEdgeNormal(bb, cp) ==
    LET distToLeft == cp.x - bb.min.x
        distToRight == bb.max.x - cp.x
        distToTop == cp.y - bb.min.y
        distToBottom == bb.max.y - cp.y
        minDist == Min(Min(distToLeft, distToRight),
                       Min(distToTop, distToBottom))
    IN IF minDist = distToLeft THEN Vec(-NormScale, 0)
       ELSE IF minDist = distToRight THEN Vec(NormScale, 0)
       ELSE IF minDist = distToTop THEN Vec(0, -NormScale)
       ELSE Vec(0, NormScale)

testAABBCircle(box, circle, C, T) ==
    LET bb == getBounds(C[box], T[box])
        cp == getWorldPosition(C[circle], T[circle])
        closest == Vec(Max(bb.min.x, Min(cp.x, bb.max.x)),
                       Max(bb.min.y, Min(cp.y, bb.max.y)))
        delta == VSub(cp, closest)
        distanceSquared == LengthSquared(delta)
        r == C[circle].radius
    IN IF distanceSquared >= r * r THEN NoInfo
       ELSE
       LET distance == Sqrt(distanceSquared)
           penetration == r - distance
           normal == IF distance > 0 THEN Normalize(delta)
                     ELSE NearestEdgeNormal(bb, cp)
       IN CollisionInfo(box, circle, closest, normal, penetration)

detect(a, b, C, T) ==
    IF C[a].kind = BOX /\ C[b].kind = BOX THEN testAABB(a, b, C, T)
    ELSE IF C[a].kind = CIRCLE /\ C[b].kind = CIRCLE
    THEN testCircleCircle(a, b, C, T)
    ELSE IF C[a].kind = BOX /\ C[b].kind = CIRCLE
    THEN testAABBCircle(a, b, C, T)
    ELSE IF C[a].kind = CIRCLE /\ C[b].kind = BOX
    THEN LET info == testAABBCircle(b, a, C, T)
         IN IF info # NoInfo THEN swapColliders(info) ELSE info
    ELSE NoInfo

-----------------------------------------------------------------------------
(* CollisionResolver.  W is the world a sub-step works on:                  *)
(*   tf, rb, col   transforms, bodies and colliders by entity               *)
(*   events        callbacks delivered so far in the sub-step               *)
(*   calls         resolver calls made so far in the sub-step               *)

\* collider.gameObject?.getComponent(RigidBody): is there a body
HasBody(W, e) == W.rb[e].attached

Moved(W, e, d) ==
    [W EXCEPT !.tf[e].x = W.tf[e].x + d.x, !.tf[e].y = W.tf[e].y + d.y]

\* positional correction without the bodyType tests
CorrectAnyType(W, info) ==
    LET a == info.colliderA
        b == info.colliderB
        correctionDepth == Max(info.penetration - CORRECTION_SLOP, 0)
        invA == inverseMass(W.rb[a])
        invB == inverseMass(W.rb[b])
        totalInverseMass == invA + invB
    IN IF correctionDepth <= 0 \/ totalInverseMass = 0 THEN W
       ELSE
       LET s == MulDiv(MulDiv(correctionDepth, MassScale, totalInverseMass),
                       CORRECTION_PERCENT, RatioScale)
           correction == VScale(info.normal, s, NormScale)
           dA == VScale(correction, invA, MassScale)
           dB == VScale(correction, invB, MassScale)
       IN Moved(Moved(W, a, Vec(-dA.x, -dA.y)), b, dB)

resolvePositionalCorrection(W, info) ==
    LET a == info.colliderA
        b == info.colliderB
        correctionDepth == Max(info.penetration - CORRECTION_SLOP, 0)
        invA == inverseMass(W.rb[a])
        invB == inverseMass(W.rb[b])
        totalInverseMass == invA + invB
    IN IF correctionDepth <= 0 \/ totalInverseMass = 0 THEN W
       ELSE
       LET s == MulDiv(MulDiv(correctionDepth, MassScale, totalInverseMass),
                       CORRECTION_PERCENT, RatioScale)
           correction == VScale(info.normal, s, NormScale)
           dA == VScale(correction, invA, MassScale)
           dB == VScale(correction, invB, MassScale)
           W1 == IF W.rb[a].bodyType = DYNAMIC
                 THEN Moved(W, a, Vec(-dA.x, -dA.y)) ELSE W
       IN IF W.rb[b].bodyType = DYNAMIC THEN Moved(W1, b, dB) ELSE W1

resolveFriction(W, info, j) ==
    LET a == info.colliderA
        b == info.colliderB
        relativeVel == VSub(W.rb[b].velocity, W.rb[a].velocity)
        normalVel == VScale(info.normal,
                            Div(Dot(relativeVel, info.normal), NormScale),
                            NormScale)
        tangentVel == VSub(relativeVel, normalVel)
        invA == inverseMass(W.rb[a])
        invB == inverseMass(W.rb[b])
        totalInverseMass == invA + invB
    IN IF LengthSquared(tangentVel) < TangentEps \/ totalInverseMass = 0 THEN W
       ELSE
       LET tangent == Normalize(tangentVel)
           friction == Sqrt(W.col[a].material.friction
                            * W.col[b].material.friction)
           jt == MulDiv(-Div(Dot(relativeVel, tangent), NormScale),
                        MassScale, totalInverseMass)
           maxFriction == MulDiv(Abs(j), friction, RatioScale)
           magnitude == Max(-maxFriction, Min(jt, maxFriction))
           frictionImpulse == VScale(tangent, magnitude, NormScale)
           dA == VScale(frictionImpulse, invA, MassScale)
           dB == VScale(frictionImpulse, invB, MassScale)
           W1 == IF W.rb[a].bodyType = DYNAMIC
                 THEN [W EXCEPT !.rb[a] =
                          SetVelocityProp(@, VSub(W.rb[a].velocity, dA))]
                 ELSE W
       IN IF W1.rb[b].bodyType = DYNAMIC
          THEN [W1 EXCEPT !.rb[b] =
                   SetVelocityProp(@, VAdd(W1.rb[b].velocity, dB))]
          ELSE W1

resolveImpulse(W, info) ==
    LET a == info.colliderA
        b == info.colliderB
        relativeVel == VSub(W.rb[b].velocity, W.rb[a].velocity)
        along == Dot(relativeVel, info.normal)
        velAlongNormal == Div(along, NormScale)
        e == Min(W.col[a].material.restitution, W.col[b].material.restitution)
        invA == inverseMass(W.rb[a])
        invB == inverseMass(W.rb[b])
        totalInverseMass == invA + invB
    IN IF along > 0 \/ totalInverseMass = 0 THEN W
       ELSE
       LET j == MulDiv(MulDiv(-velAlongNormal, RatioScale + e, RatioScale),
                       MassScale, totalInverseMass)
           impulse == VScale(info.normal, j, NormScale)
           dA == VScale(impulse, invA, MassScale)
           dB == VScale(impulse, invB, MassScale)
           W1 == IF W.rb[a].bodyType = DYNAMIC
                 THEN [W EXCEPT !.rb[a] =
                          SetVelocityProp(@, VSub(W.rb[a].velocity, dA))]
                 ELSE W
           W2 == IF W1.rb[b].bodyType = DYNAMIC
                 THEN [W1 EXCEPT !.rb[b] =
                          SetVelocityProp(@, VAdd(W1.rb[b].velocity, dB))]
                 ELSE W1
       IN resolveFriction(W2, info, j)

BothStatic(W, info) ==
    /\ W.rb[info.colliderA].bodyType = STATIC
    /\ W.rb[info.colliderB].bodyType = STATIC

resolve(W, info) ==
    IF ~HasBody(W, info.colliderA) \/ ~HasBody(W, info.colliderB) THEN W
    ELSE IF BothStatic(W, info) THEN W
    ELSE resolveImpulse(resolvePositionalCorrection(W, info), info)

resolvePositionOnly(W, info) ==
    IF ~HasBody(W, info.colliderA) \/ ~HasBody(W, info.colliderB) THEN W
    ELSE IF BothStatic(W, info) THEN W
    ELSE resolvePositionalCorrection(W, info)

-----------------------------------------------------------------------------
(* PhysicsManager.fixedUpdate: one sub-step *)

SeqSet(q) == {q[i] : i \in DOMAIN q}

collisionPairKey(a, b) == IF a < b THEN <<a, b>> ELSE <<b, a>>

\* `${id}`: the decimal digits of an id > 0
RECURSIVE Digits(_)
Digits(n) == IF n < 10 THEN <<n>> ELSE Append(Digits(n \div 10), n % 10)

\* a key text that keeps the order of the arguments
KeyTextInArgumentOrder(a, b) == Digits(a) \o <<"-">> \o Digits(b)

\* the text of the key: `${idA}-${idB}`, the lesser id first
collisionPairKeyText(a, b) ==
    IF a < b THEN Digits(a) \o <<"-">> \o Digits(b)
    ELSE Digits(b) \o <<"-">> \o Digits(a)

aabbOverlap(A, B) ==
    ~(A.max.x < B.min.x \/ A.min.x > B.max.x
      \/ A.max.y < B.min.y \/ A.min.y > B.max.y)

\* 1. body.fixedUpdate for every registered, enabled, awake Dynamic body
Integrated(W, bodies) ==
    {e \in SeqSet(bodies) :
        W.rb[e].enabled /\ W.rb[e].bodyType = DYNAMIC /\ ~W.rb[e].isSleeping}

IntegrateBodies(W, bodies, dt) ==
    LET who == Integrated(W, bodies)
    IN [W EXCEPT
          !.rb = [e \in DOMAIN W.rb |->
                    IF e \in who THEN BodyFixedUpdate(W.rb[e], W.tf[e], dt).b
                    ELSE W.rb[e]],
          !.tf = [e \in DOMAIN W.tf |->
                    IF e \in who THEN BodyFixedUpdate(W.rb[e], W.tf[e], dt).t
                    ELSE W.tf[e]]]

\* 2. collider.updateBounds for every registered, enabled collider
UpdateAllBounds(W, cs) ==
    [W EXCEPT !.col = [e \in DOMAIN W.col |->
        IF e \in SeqSet(cs) /\ W.col[e].enabled
        THEN updateBounds(W.col[e], W.tf[e]) ELSE W.col[e]]]

\* 3. collider.updateCollisionState for every registered, enabled collider
UpdateAllCollisionStates(W, cs) ==
    [W EXCEPT !.col = [e \in DOMAIN W.col |->
        IF e \in SeqSet(cs) /\ W.col[e].enabled
        THEN updateCollisionState(W.col[e]) ELSE W.col[e]]]

\* 4. all pairs i < j of the enabled colliders, in registry order
EnabledColliders(W, cs) == SelectSeq(cs, LAMBDA e : W.col[e].enabled)

RECURSIVE PairsFrom(_, _, _)
PairsFrom(arr, i, j) ==
    IF i > Len(arr) THEN <<>>
    ELSE IF j > Len(arr) THEN PairsFrom(arr, i + 1, i + 2)
    ELSE <<<<arr[i], arr[j]>>>> \o PairsFrom(arr, i, j + 1)

PotentialPairs(W, cs) == PairsFrom(EnabledColliders(W, cs), 1, 2)

\* the cached bounds of shape e are those of where its entity stands
BoundsCurrent(W, e) == W.col[e].bounds = computeBounds(W.col[e], W.tf[e])

\* a call of CollisionDetection.detect in a sub-step: the phase it is made
\* in, the shapes, where the entities stand, and whether the cached bounds
\* of both shapes are current
Probe(phase, a, b, W) ==
    [phase |-> phase, a |-> a, b |-> b, tf |-> W.tf,
     current |-> BoundsCurrent(W, a) /\ BoundsCurrent(W, b)]

Probed(phase, a, b, W) ==
    [W EXCEPT !.probes = Append(W.probes, Probe(phase, a, b, W))]

\* 5. narrow phase: R = [W, current], current the manifolds in map order
NarrowTest(W, a, b) ==
    IF aabbOverlap(getBounds(W.col[a], W.tf[a]), getBounds(W.col[b], W.tf[b]))
    THEN detect(a, b, W.col, W.tf) ELSE NoInfo

NarrowStep(R, a, b) ==
    IF ~aabbOverlap(getBounds(R.W.col[a], R.W.tf[a]),
                    getBounds(R.W.col[b], R.W.tf[b]))
    THEN R
    ELSE
    Bind(NarrowTest(R.W, a, b), LAMBDA info :
        IF info = NoInfo THEN [R EXCEPT !.W = Probed("narrow", a, b, R.W)]
        ELSE [W |-> [Probed("narrow", a, b, R.W) EXCEPT
                        !.col[a] = addCollision(@, b),
                        !.col[b] = addCollision(@, a)],
              current |-> Append(R.current, info)])

RECURSIVE NarrowPhase(_, _, _)
NarrowPhase(R0, pairs, k) ==
    IF k > Len(pairs) THEN R0
    ELSE Bind(R0, LAMBDA R :
            NarrowPhase(NarrowStep(R, pairs[k][1], pairs[k][2]), pairs, k + 1))

IsTriggerBoth(W, info) ==
    W.col[info.colliderA].isTrigger /\ W.col[info.colliderB].isTrigger
IsTriggerPair(W, info) ==
    W.col[info.colliderA].isTrigger \/ W.col[info.colliderB].isTrigger

\* a call of the resolver in a sub-step: W the world it is made in, after
\* the world it leaves
Call(op, info, W, after) ==
    [op |-> op, a |-> info.colliderA, b |-> info.colliderB,
     moved |-> {e \in DOMAIN W.tf : after.tf[e] # W.tf[e]},
     changed |-> {e \in DOMAIN W.rb : after.rb[e].velocity # W.rb[e].velocity}]

\* 6-1. the position solver on one manifold of the map
PositionStep(W, info) ==
    IF IsTriggerPair(W, info) THEN W
    ELSE Bind(detect(info.colliderA, info.colliderB, W.col, W.tf),
              LAMBDA updated :
                IF updated = NoInfo
                THEN Probed("position", info.colliderA, info.colliderB, W)
                ELSE Bind(resolvePositionOnly(W, updated), LAMBDA after :
                     [after EXCEPT
                        !.calls = Append(W.calls,
                                         Call("resolvePositionOnly", updated,
                                              W, after)),
                        !.probes = Append(W.probes,
                                          Probe("position", info.colliderA,
                                                info.colliderB, W))]))

RECURSIVE PositionPass(_, _, _)
PositionPass(W0, current, k) ==
    IF k > Len(current) THEN W0
    ELSE Bind(W0, LAMBDA W :
            PositionPass(PositionStep(W, current[k]), current, k + 1))

RECURSIVE PositionSolver(_, _, _, _)
PositionSolver(W0, cs, current, iter) ==
    IF iter >= POSITION_ITERATIONS THEN W0
    ELSE Bind(W0, LAMBDA W :
            Bind(UpdateAllBounds(W, cs), LAMBDA W1 :
                PositionSolver(PositionPass(W1, current, 1),
                               cs, current, iter + 1)))

\* 6-2. the velocity solver: resolve on a final manifold, once per pair
VelocityStep(W, info) ==
    IF IsTriggerPair(W, info) THEN W
    ELSE Bind(detect(info.colliderA, info.colliderB, W.col, W.tf),
              LAMBDA finalInfo :
                IF finalInfo = NoInfo
                THEN Probed("velocity", info.colliderA, info.colliderB, W)
                ELSE Bind(resolve(W, finalInfo), LAMBDA after :
                     [after EXCEPT
                        !.calls = Append(W.calls,
                                         Call("resolve", finalInfo, W, after)),
                        !.probes = Append(W.probes,
                                          Probe("velocity", info.colliderA,
                                                info.colliderB, W))]))

RECURSIVE VelocitySolver(_, _, _)
VelocitySolver(W0, current, k) ==
    IF k > Len(current) THEN W0
    ELSE Bind(W0, LAMBDA W :
            VelocitySolver(VelocityStep(W, current[k]), current, k + 1))

Event(kind, to, other) == [kind |-> kind, to |-> to, other |-> other]

\* the callback one side of a manifold gets, if any
EnterStayEvents(W, info, me, other) ==
    LET t == IF IsTriggerPair(W, info) THEN "Trigger" ELSE "Collision"
    IN IF isCollisionEnter(W.col[me], other)
       THEN <<Event(t \o "Enter", me, other)>>
       ELSE IF isCollisionStay(W.col[me], other)
       THEN <<Event(t \o "Stay", me, other)>>
       ELSE <<>>

RECURSIVE DispatchEnterStay(_, _, _)
DispatchEnterStay(W, current, k) ==
    IF k > Len(current) THEN <<>>
    ELSE LET info == current[k]
         IN EnterStayEvents(W, info, info.colliderA, info.colliderB)
            \o EnterStayEvents(W, info, info.colliderB, info.colliderA)
            \o DispatchEnterStay(W, current, k + 1)

RECURSIVE DispatchExit(_, _, _, _)
DispatchExit(W, all, i, j) ==
    IF i > Len(all) THEN <<>>
    ELSE IF j > Len(all) THEN DispatchExit(W, all, i + 1, 1)
    ELSE LET c == all[i]
             o == all[j]
             t == IF W.col[c].isTrigger \/ W.col[o].isTrigger
                  THEN "Trigger" ELSE "Collision"
         IN (IF c # o /\ isCollisionExit(W.col[c], o)
             THEN <<Event(t \o "Exit", c, o)>> ELSE <<>>)
            \o DispatchExit(W, all, i, j + 1)

\* 7. dispatchCollisionEvents
dispatchCollisionEvents(W, cs, current) ==
    DispatchEnterStay(W, current, 1)
    \o DispatchExit(W, EnabledColliders(W, cs), 1, 1)

PairKeys(current) ==
    {collisionPairKey(current[k].colliderA, current[k].colliderB) :
        k \in DOMAIN current}

\* the velocities updateSleep sees in step 1
SeenBySleep(W, bodies, dt) ==
    [e \in DOMAIN W.rb |->
        LET b == IF e \in Integrated(W, bodies) /\ W.rb[e].attached
                 THEN BodyIntegrate(W.rb[e], W.tf[e], dt).b ELSE W.rb[e]
        IN [velocity |-> b.velocity, angularVelocity |-> b.angularVelocity]]

\* steps 2 to 5
DetectionPhase(W1, cs) ==
    Bind(UpdateAllBounds([W1 EXCEPT !.probes = <<>>], cs), LAMBDA W2 :
    Bind(UpdateAllCollisionStates(W2, cs), LAMBDA W3 :
        NarrowPhase([W |-> W3, current |-> <<>>],
                    PotentialPairs(W3, cs), 1)))

\* step 6
SolverPhase(N, cs) ==
    Bind(PositionSolver([N.W EXCEPT !.calls = <<>>], cs, N.current, 0),
         LAMBDA W4 : VelocitySolver(W4, N.current, 1))

\* the sub-step; the result carries what it did
fixedUpdate(W0, bodies, cs, dt) ==
    Bind(IntegrateBodies(W0, bodies, dt), LAMBDA W1 :
    Bind(DetectionPhase(W1, cs), LAMBDA N :
    Bind(SolverPhase(N, cs), LAMBDA W5 :
       [W |-> W5,
        pairs |-> PairKeys(N.current),
        rec |-> [pre |-> [tf |-> W0.tf, rb |-> W0.rb],
                 seen |-> SeenBySleep(W0, bodies, dt),
                 mid |-> [tf |-> W1.tf, rb |-> W1.rb],
                 post |-> [tf |-> W5.tf, rb |-> W5.rb],
                 dt |-> dt,
                 integrated |-> Integrated(W0, bodies),
                 detected |-> PairKeys(N.current),
                 manifolds |-> N.current,
                 calls |-> W5.calls,
                 probes |-> W5.probes,
                 events |-> dispatchCollisionEvents(W5, cs, N.current)]])))

-----------------------------------------------------------------------------
(* PhysicsManager.update *)

\* S = [W, pairs, acc, log]: the while loop of update
RECURSIVE RunSubSteps(_, _, _, _)
RunSubSteps(S0, bodies, cs, ts) ==
    Bind(S0, LAMBDA S :
        IF S.acc >= ts
        THEN Bind(fixedUpdate(S.W, bodies, cs, ts), LAMBDA F :
                RunSubSteps([W |-> F.W, pairs |-> F.pairs, acc |-> S.acc - ts,
                             log |-> Append(S.log, F.rec)],
                            bodies, cs, ts))
        ELSE S)

\* the limit one sub-step too high
ClampOneMore(acc, ts) == Min(acc, ts * (MaxSubSteps + 1))
\* the limit, and never less than one sub-step
ClampAtLeastOne(acc, ts) == Max(ts, Min(acc, ts * MaxSubSteps))
ClampAccumulator(acc, ts) ==
    IF acc > ts * MaxSubSteps THEN ts * MaxSubSteps ELSE acc

update(W, pairs, acc, bodies, cs, ts, deltaTime) ==
    RunSubSteps([W |-> W, pairs |-> pairs,
                 acc |-> ClampAccumulator(acc + deltaTime, ts), log |-> <<>>],
                bodies, cs, ts)

-----------------------------------------------------------------------------
(* Bounds and inputs *)

MaxOps == 5
MaxContactOps == 5
MaxTriggerOps == 5
MaxResolveOps == 4
MaxBodyOps == 4
MaxGravityOps == 4
MaxDetectOps == 2
MaxRaycastOps == 3
MaxMaterialOps == 2
MaxRegistryOps == 3
MaxPairOps == 3

Entities == {1, 2}
DtSet == {0, 50, 100, 3000}
TimestepSet == {0, 6, 100, 1500, 3000}
SlideSet == {Vec(0, 30), Vec(-5000, 0)}
DriftSet == {Vec(30000, 0), Vec(-30000, 0)}
ApproachSet == {Vec(5000, 3000), Vec(-5000, 0)}
Coords == {-400, -100, 0, 100, 300, 400, 500}
PlacementSet == {Vec(x, y) : x \in Coords, y \in Coords}
GravitySet == {Zero, Vec(0, GravityY), Vec(0, -GravityY), Vec(20000, 0)}
ForceSet == {Zero, Vec(5000, 0)}
ImpulseSet == {Vec(0, -30000)}
TorqueSet == {0, 100}
VelocitySet == {Zero, Vec(8, 0), Vec(30, 0), Vec(6000, 0)}
AngularSet == {0, 1, 30}
MassSet == {-1000, 0, 1, 2000}
BodyDtSet == {FIXED_TIMESTEP, SLEEP_TIME}
BoxSize == Vec(400, 400)
CircleRadius == 200
\* where the second entity is put: overlapping the first, or apart from it
Near == Vec(300, 0)
Far == Vec(1000, 0)
SizeSet == {BoxSize, Vec(200, 1000)}
OverlapSet == {Near, Vec(0, 300), Vec(250, 250)}

-----------------------------------------------------------------------------
(* History kept beside the program state *)

Op(name, e, arg) == [name |-> name, e |-> e, arg |-> arg]

RECURSIVE ConcatEvents(_, _)
ConcatEvents(lg, k) ==
    IF k > Len(lg) THEN <<>> ELSE lg[k].events \o ConcatEvents(lg, k + 1)

\* Enter, Stay or Exit
Phase(kind) ==
    IF kind \in {"TriggerEnter", "CollisionEnter"} THEN "Enter"
    ELSE IF kind \in {"TriggerStay", "CollisionStay"} THEN "Stay"
    ELSE "Exit"

\* the phases of the events given to a about b, in delivery order
PhasesFor(evs, a, b) ==
    LET mine == SelectSeq(evs, LAMBDA ev : ev.to = a /\ ev.other = b)
    IN [k \in DOMAIN mine |-> Phase(mine[k].kind)]

NextLastEvent(last, lg) ==
    [p \in DOMAIN last |->
        LET ph == PhasesFor(ConcatEvents(lg, 1), p[1], p[2])
        IN IF ph = <<>> THEN last[p] ELSE ph[Len(ph)]]

-----------------------------------------------------------------------------
(* Operations *)

World ==
    [tf |-> transform, rb |-> rb, col |-> col, calls |-> <<>>, probes |-> <<>>]

\* what every operation but update does to the history
Did(name, e, arg) ==
    /\ budget > 0
    /\ budget' = budget - 1
    /\ lastOp' = Op(name, e, arg)
    /\ log' = <<>>
    /\ lastEvent' = lastEvent

Update(dt) ==
    /\ budget > 0
    /\ budget' = budget - 1
    /\ \E S \in {update(World, collisionPairs, accumulator, rigidbodies,
                         colliders, fixedTimestep, dt)} :
          /\ transform' = S.W.tf
          /\ rb' = S.W.rb
          /\ col' = S.W.col
          /\ collisionPairs' = S.pairs
          /\ accumulator' = S.acc
          /\ log' = S.log
          /\ lastEvent' = NextLastEvent(lastEvent, S.log)
    /\ lastOp' = Op("update", 0, dt)
    /\ UNCHANGED <<rigidbodies, colliders, fixedTimestep, gravity>>

SetFixedTimestep(value) ==
    /\ Did("fixedTimestep", 0, value)
    /\ fixedTimestep' = Max(MinTimestep, value)
    /\ UNCHANGED <<transform, rb, col, rigidbodies, colliders, accumulator,
                   collisionPairs, gravity>>

\* physics.gravity = value
SetGravity(value) ==
    /\ Did("gravity", 0, value)
    /\ gravity' = value
    /\ UNCHANGED <<transform, rb, col, rigidbodies, colliders, accumulator,
                   fixedTimestep, collisionPairs>>

RegisterCollider(e) ==
    /\ Did("registerCollider", e, 0)
    /\ colliders' = IF e \in SeqSet(colliders) THEN colliders
                    ELSE Append(colliders, e)
    /\ UNCHANGED <<transform, rb, col, rigidbodies, accumulator,
                   fixedTimestep, collisionPairs, gravity>>

UnregisterCollider(e) ==
    /\ Did("unregisterCollider", e, 0)
    /\ colliders' = SelectSeq(colliders, LAMBDA c : c # e)
    /\ UNCHANGED <<transform, rb, col, rigidbodies, accumulator,
                   fixedTimestep, collisionPairs, gravity>>

SetColliderEnabled(e, value) ==
    /\ Did("collider.enabled", e, value)
    /\ col' = [col EXCEPT ![e].enabled = value]
    /\ UNCHANGED <<transform, rb, rigidbodies, colliders, accumulator,
                   fixedTimestep, collisionPairs, gravity>>

RegisterRigidbody(e) ==
    /\ Did("registerRigidbody", e, 0)
    /\ rigidbodies' = IF e \in SeqSet(rigidbodies) THEN rigidbodies
                      ELSE Append(rigidbodies, e)
    /\ UNCHANGED <<transform, rb, col, colliders, accumulator,
                   fixedTimestep, collisionPairs, gravity>>

UnregisterRigidbody(e) ==
    /\ Did("unregisterRigidbody", e, 0)
    /\ rigidbodies' = SelectSeq(rigidbodies, LAMBDA b : b # e)
    /\ UNCHANGED <<transform, rb, col, colliders, accumulator,
                   fixedTimestep, collisionPairs, gravity>>

\* body.enabled = value
SetBodyEnabled(e, value) ==
    /\ Did("body.enabled", e, value)
    /\ rb' = [rb EXCEPT ![e].enabled = value]
    /\ UNCHANGED <<transform, col, rigidbodies, colliders, accumulator,
                   fixedTimestep, collisionPairs, gravity>>

\* transform.position = value
SetPosition(e, value) ==
    /\ Did("position", e, value)
    /\ transform' = [transform EXCEPT ![e].x = value.x, ![e].y = value.y]
    /\ UNCHANGED <<rb, col, rigidbodies, colliders, accumulator,
                   fixedTimestep, collisionPairs, gravity>>

\* what an operation on the body of entity e does to the history; the body
\* as it was before the call is kept with the argument
DidBody(name, e, value) ==
    /\ Did(name, e, [value |-> value, before |-> rb[e]])
    /\ UNCHANGED <<transform, col, rigidbodies, colliders, accumulator,
                   fixedTimestep, collisionPairs, gravity>>

AddForce(e, f) ==
    /\ DidBody("addForce", e, f)
    /\ rb' = [rb EXCEPT ![e] = addForce(rb[e], f)]

AddImpulse(e, j) ==
    /\ DidBody("addImpulse", e, j)
    /\ rb' = [rb EXCEPT ![e] = addImpulse(rb[e], j)]

AddTorque(e, tq) ==
    /\ DidBody("addTorque", e, tq)
    /\ rb' = [rb EXCEPT ![e] = addTorque(rb[e], tq)]

SetVelocity(e, v) ==
    /\ DidBody("setVelocity", e, v)
    /\ rb' = [rb EXCEPT ![e] = setVelocity(rb[e], v)]

SetAngularVelocity(e, w) ==
    /\ DidBody("setAngularVelocity", e, w)
    /\ rb' = [rb EXCEPT ![e] = setAngularVelocity(rb[e], w)]

\* body.velocity = v
WriteVelocity(e, v) ==
    /\ DidBody("velocity", e, v)
    /\ rb' = [rb EXCEPT ![e] = SetVelocityProp(rb[e], v)]

\* body.angularVelocity = w
WriteAngularVelocity(e, w) ==
    /\ DidBody("angularVelocity", e, w)
    /\ rb' = [rb EXCEPT ![e] = SetAngularVelocityProp(rb[e], w)]

\* body.mass = m
WriteMass(e, m) ==
    /\ DidBody("mass", e, m)
    /\ rb' = [rb EXCEPT ![e] = SetMass(rb[e], m)]

\* body.bodyType = type
WriteBodyType(e, type) ==
    /\ DidBody("bodyType", e, type)
    /\ rb' = [rb EXCEPT ![e] = SetBodyType(rb[e], type)]

\* body.fixedUpdate(dt) on its own
StepBody(e, dt) ==
    /\ Did("fixedUpdate", e, [value |-> dt, before |-> rb[e]])
    /\ \E R \in {BodyFixedUpdate(rb[e], transform[e], dt)} :
          /\ rb' = [rb EXCEPT ![e] = R.b]
          /\ transform' = [transform EXCEPT ![e] = R.t]
    /\ UNCHANGED <<col, rigidbodies, colliders, accumulator, fixedTimestep,
                   collisionPairs, gravity>>

-----------------------------------------------------------------------------
(* Scenes: two entities, each with a body and a shape *)

NewTransform(p) == [x |-> p.x, y |-> p.y, rot |-> 0]

\* entity 1 at the origin with a Dynamic body and a Box; entity 2 at p2
Scene(p2, type2, kind1, kind2, trigger2, gravity1) ==
    /\ transform = [e \in Entities |->
                      IF e = 1 THEN NewTransform(Zero) ELSE NewTransform(p2)]
    /\ rb = [e \in Entities |->
               [NewBody EXCEPT
                   !.useGravity = (e = 1 /\ gravity1),
                   !.bodyType = IF e = 1 THEN DYNAMIC ELSE type2]]
    /\ col = [e \in Entities |->
                [NewCollider(IF e = 1 THEN kind1 ELSE kind2) EXCEPT
                    !.size = BoxSize, !.radius = CircleRadius,
                    !.isTrigger = (e = 2 /\ trigger2)]]
    /\ rigidbodies = <<1, 2>>
    /\ colliders = <<1, 2>>
    /\ accumulator = 0
    /\ fixedTimestep = FIXED_TIMESTEP
    /\ collisionPairs = {}
    /\ gravity = Vec(0, GravityY)
    /\ log = <<>>
    /\ lastEvent = [p \in Entities \X Entities |-> "none"]
    /\ lastOp = Op("new", 0, 0)

-----------------------------------------------------------------------------
(* The fixed-timestep loop: a Dynamic box overlapping a Static box, given  *)
(* a velocity between updates                                              *)

Init ==
    /\ \E g \in BOOLEAN : Scene(Near, STATIC, BOX, BOX, FALSE, g)
    /\ budget = MaxOps

Next ==
    \/ \E dt \in DtSet : Update(dt)
    \/ \E v \in TimestepSet : SetFixedTimestep(v)
    \/ \E v \in SlideSet : SetVelocity(1, v)

Spec == Init /\ [][Next]_vars

\* C1: every update(dt), dt >= 0, whatever fixedTimestep was set to before
\* it, runs at most 5 sub-steps and returns with
\* 0 <= accumulator < fixedTimestep.
C1_UpdateBounded ==
    lastOp.name = "update" =>
        /\ Len(log) <= 5
        /\ 0 <= accumulator
        /\ accumulator < fixedTimestep

\* an update that ran 5 sub-steps after fixedTimestep was changed
C1_Witness ==
    /\ lastOp.name = "update"
    /\ Len(log) = 5
    /\ fixedTimestep # FIXED_TIMESTEP

WorldUnchanged ==
    UNCHANGED <<transform, rb, col, accumulator, collisionPairs, lastEvent>>

\* C2 as claimed: in every reachable state update(0) runs no sub-step and
\* changes no body, shape or accumulator state.
C2_UpdateZeroIdle ==
    [][(lastOp'.name = "update" /\ lastOp'.arg = 0)
           => (log' = <<>> /\ WorldUnchanged)]_vars

\* C2 amended: update(0) runs no sub-step exactly when it is entered with
\* accumulator < fixedTimestep, and then it changes nothing.
C2_UpdateZeroIdleWhenCaughtUp ==
    [][(lastOp'.name = "update" /\ lastOp'.arg = 0)
           => /\ (log' = <<>>) <=> (accumulator < fixedTimestep)
              /\ accumulator < fixedTimestep => WorldUnchanged]_vars

\* update(0) returned without a sub-step while time was left over
C2_Witness ==
    /\ lastOp.name = "update"
    /\ lastOp.arg = 0
    /\ log = <<>>
    /\ accumulator > 0

\* C6: a body that is sleeping when a sub-step starts has the same velocity
\* and its entity the same position when the sub-step ends.
C6_SleepingBodyUntouched ==
    \A k \in DOMAIN log : \A e \in Entities :
        log[k].pre.rb[e].isSleeping =>
            /\ log[k].post.rb[e].velocity = log[k].pre.rb[e].velocity
            /\ log[k].post.tf[e].x = log[k].pre.tf[e].x
            /\ log[k].post.tf[e].y = log[k].pre.tf[e].y

\* the time of sub-steps i..j of one update
RECURSIVE SubStepTime(_, _, _)
SubStepTime(lg, i, j) ==
    IF i > j THEN 0 ELSE lg[i].dt + SubStepTime(lg, i + 1, j)

\* e was integrated in sub-step r with both speeds below the threshold
QuietIn(r, e) ==
    /\ e \in r.integrated
    /\ LengthSquared(r.seen[e].velocity) < SLEEP_THRESHOLD * SLEEP_THRESHOLD
    /\ Abs(r.seen[e].angularVelocity) < SLEEP_THRESHOLD

\* C7: when a body is integrated in consecutive sub-steps i..j with both
\* speeds below the threshold, and their time first reaches the sleep
\* duration at j, its integration in j leaves it sleeping with velocity
\* (0,0) and angular velocity 0; when it is integrated with a speed at or
\* above the threshold its integration leaves the sleep timer at 0.
C7_QuietBodySleeps ==
    \A e \in Entities : \A j \in DOMAIN log :
        /\ \A i \in 1..j :
              ( /\ \A k \in i..j : QuietIn(log[k], e)
                /\ SubStepTime(log, i, j) >= SLEEP_TIME
                /\ SubStepTime(log, i, j - 1) < SLEEP_TIME )
              => /\ log[j].mid.rb[e].isSleeping
                 /\ log[j].mid.rb[e].velocity = Zero
                 /\ log[j].mid.rb[e].angularVelocity = 0
        /\ (e \in log[j].integrated /\ ~QuietIn(log[j], e))
              => log[j].mid.rb[e].sleepTimer = 0

-----------------------------------------------------------------------------
(* Contacts: shapes are enabled, disabled, registered, unregistered and    *)
(* moved between sub-steps                                                 *)

InitContact ==
    /\ \E trig \in BOOLEAN : Scene(Near, STATIC, BOX, BOX, trig, FALSE)
    /\ budget = MaxContactOps

NextContact ==
    \/ Update(FIXED_TIMESTEP)
    \/ \E e \in Entities : RegisterCollider(e)
    \/ \E e \in Entities : UnregisterCollider(e)
    \/ \E e \in Entities, v \in BOOLEAN : SetColliderEnabled(e, v)
    \/ \E p \in {Near, Far} : SetPosition(2, p)

SpecContact == InitContact /\ [][NextContact]_vars
\* may an event of phase next follow one of phase prev
Allowed(prev, next) ==
    IF prev \in {"none", "Exit"} THEN next = "Enter"
    ELSE next \in {"Stay", "Exit"}

RECURSIVE PatternFollows(_, _, _)
PatternFollows(prev, ph, k) ==
    \/ k > Len(ph)
    \/ Allowed(prev, ph[k]) /\ PatternFollows(ph[k], ph, k + 1)

\* C3: the events given to a about b follow (Enter, Stay*, Exit)*: no Stay
\* or Exit without an Enter before it, no second Enter without an Exit
\* between.
C3_EnterStayExitPattern ==
    [][\A a, b \in Entities :
          PatternFollows(lastEvent[<<a, b>>],
                         PhasesFor(ConcatEvents(log', 1), a, b), 1)]_vars

-----------------------------------------------------------------------------
(* Triggers: a Dynamic body's shape and a trigger Box, both always enabled *)
(* and registered, moved into and out of overlap                           *)

InitTrigger ==
    /\ \E p \in {Near, Far}, type2 \in {STATIC, DYNAMIC}, kind1 \in {BOX, CIRCLE} :
          Scene(p, type2, kind1, BOX, TRUE, FALSE)
    /\ budget = MaxTriggerOps

NextTrigger ==
    \/ \E dt \in {FIXED_TIMESTEP, 2 * FIXED_TIMESTEP} : Update(dt)
    \/ \E p \in {Near, Far} : SetPosition(2, p)
    \/ \E v \in DriftSet : SetVelocity(1, v)

SpecTrigger == InitTrigger /\ [][NextTrigger]_vars

\* how many of the events evs are ev
Count(evs, ev) == Cardinality({i \in DOMAIN evs : evs[i] = ev})

\* was the pair (1, 2) detected in the sub-step before sub-step k of lg,
\* before being the pairs of the last sub-step of the update before
DetectedBefore(lg, k, before) ==
    IF k = 1 THEN <<1, 2>> \in before ELSE <<1, 2>> \in lg[k - 1].detected

\* C4: with a trigger Box 2 and the shape 1 of a Dynamic body, in each
\* sub-step each side gets onTriggerEnter once if the pair is detected and
\* was not in the sub-step before, and not otherwise; onTriggerExit once if
\* it is not detected and was in the sub-step before, and not otherwise; no
\* onCollision* event; and the solver is not called for the pair, so that
\* each body and entity ends the sub-step as integration left it.
C4_TriggerEnterExitOnce ==
    [][\A k \in DOMAIN log' :
          LET r == log'[k]
              now == <<1, 2>> \in r.detected
              was == DetectedBefore(log', k, collisionPairs)
          IN /\ \A e \in Entities :
                   /\ Count(r.events, Event("TriggerEnter", e, 3 - e))
                         = IF now /\ ~was THEN 1 ELSE 0
                   /\ Count(r.events, Event("TriggerExit", e, 3 - e))
                         = IF was /\ ~now THEN 1 ELSE 0
             /\ \A i \in DOMAIN r.events :
                   r.events[i].kind \notin
                       {"CollisionEnter", "CollisionStay", "CollisionExit"}
             /\ r.calls = <<>>
             /\ r.post = r.mid]_vars

\* the Dynamic body drifted into the trigger and out of it again, and both
\* sides were told of the exit
C4_Witness ==
    /\ lastOp.name = "update"
    /\ lastEvent[<<1, 2>>] = "Exit"
    /\ lastEvent[<<2, 1>>] = "Exit"
    /\ transform[2].x = Far.x
    /\ transform[1].x > Far.x

-----------------------------------------------------------------------------
(* The resolver called on the manifold of two overlapping shapes whose     *)
(* bodies are of any type                                                  *)

InitResolve ==
    /\ \E p \in OverlapSet, kind1 \in {BOX, CIRCLE} :
          Scene(p, STATIC, kind1, BOX, FALSE, FALSE)
    /\ budget = MaxResolveOps

\* CollisionResolver.resolve(detect(a, b))
Resolve(a, b) ==
    \E info \in {detect(a, b, col, transform)} :
        /\ info # NoInfo
        /\ Did("resolve", a, b)
        /\ \E W \in {resolve(World, info)} :
              transform' = W.tf /\ rb' = W.rb
        /\ UNCHANGED <<col, rigidbodies, colliders, accumulator,
                       fixedTimestep, collisionPairs, gravity>>

\* CollisionResolver.resolvePositionOnly(detect(a, b))
ResolvePositionOnly(a, b) ==
    \E info \in {detect(a, b, col, transform)} :
        /\ info # NoInfo
        /\ Did("resolvePositionOnly", a, b)
        /\ \E W \in {resolvePositionOnly(World, info)} :
              transform' = W.tf /\ rb' = W.rb
        /\ UNCHANGED <<col, rigidbodies, colliders, accumulator,
                       fixedTimestep, collisionPairs, gravity>>

NextResolve ==
    \/ \E a \in Entities : Resolve(a, 3 - a)
    \/ \E a \in Entities : ResolvePositionOnly(a, 3 - a)
    \/ \E e \in Entities, type \in BodyTypes : WriteBodyType(e, type)
    \/ \E e \in Entities, v \in ApproachSet : SetVelocity(e, v)

SpecResolve == InitResolve /\ [][NextResolve]_vars

\* C5: resolve and resolvePositionOnly leave the velocity of every body that
\* is not Dynamic, and the position of its entity, as they were; when both
\* bodies are Static no position and no velocity changes.
C5_OnlyDynamicBodiesMove ==
    [][lastOp'.name \in {"resolve", "resolvePositionOnly"} =>
          /\ \A e \in Entities : rb[e].bodyType # DYNAMIC =>
                /\ rb'[e].velocity = rb[e].velocity
                /\ rb'[e].angularVelocity = rb[e].angularVelocity
                /\ transform'[e] = transform[e]
          /\ (\A e \in Entities : rb[e].bodyType = STATIC) =>
                /\ transform' = transform
                /\ \A e \in Entities : rb'[e].velocity = rb[e].velocity]_vars

\* resolve pushed the Dynamic body 1 away from the moving Kinematic body 2
\* and changed its velocity
C5_Witness ==
    /\ lastOp.name = "resolve"
    /\ rb[1].bodyType = DYNAMIC
    /\ rb[2].bodyType = KINEMATIC
    /\ rb[2].velocity # Zero
    /\ transform[1].x < 0
    /\ rb[1].velocity.x < 0

-----------------------------------------------------------------------------
(* One body: its properties are written, forces and impulses are added,    *)
(* and it is stepped                                                       *)

InitBody ==
    /\ \E g \in BOOLEAN : Scene(Far, STATIC, BOX, BOX, FALSE, g)
    /\ budget = MaxBodyOps

NextBody ==
    \/ \E f \in ForceSet : AddForce(1, f)
    \/ \E j \in ImpulseSet : AddImpulse(1, j)
    \/ \E tq \in TorqueSet : AddTorque(1, tq)
    \/ \E v \in VelocitySet : SetVelocity(1, v)
    \/ \E w \in AngularSet : SetAngularVelocity(1, w)
    \/ \E v \in VelocitySet : WriteVelocity(1, v)
    \/ \E w \in AngularSet : WriteAngularVelocity(1, w)
    \/ \E m \in MassSet : WriteMass(1, m)
    \/ \E type \in BodyTypes : WriteBodyType(1, type)
    \/ \E dt \in BodyDtSet : StepBody(1, dt)

SpecBody == InitBody /\ [][NextBody]_vars

\* the last operation was one of names, on the body of entity 1
Last(names) == lastOp.name \in names /\ lastOp.e = 1

\* C8: right after addForce, addImpulse or addTorque on a Dynamic body, and
\* right after setVelocity or a write of velocity with squared speed above
\* 0.01, or setAngularVelocity or a write of angularVelocity of magnitude
\* above 0.01, the body is awake and its sleep timer is 0.
C8_CallsWakeBody ==
    ( \/ Last({"addForce", "addImpulse", "addTorque"})
            /\ lastOp.arg.before.bodyType = DYNAMIC
      \/ Last({"setVelocity", "velocity"})
            /\ LengthSquared(lastOp.arg.value) > WakeSpeedSq
      \/ Last({"setAngularVelocity", "angularVelocity"})
            /\ Abs(lastOp.arg.value) > WakeAngular )
    => ~rb[1].isSleeping /\ rb[1].sleepTimer = 0

\* a sleeping Dynamic body was woken by addImpulse
C8_Witness ==
    /\ Last({"addImpulse"})
    /\ lastOp.arg.before.bodyType = DYNAMIC
    /\ lastOp.arg.before.isSleeping
    /\ lastOp.arg.before.sleepTimer >= SLEEP_TIME
    /\ ~rb[1].isSleeping

\* C9: addForce, addImpulse and addTorque on a Static or Kinematic body
\* change nothing of the body.
C9_NoOpUnlessDynamic ==
    ( /\ Last({"addForce", "addImpulse", "addTorque"})
      /\ lastOp.arg.before.bodyType \in {STATIC, KINEMATIC} )
    => rb[1] = lastOp.arg.before

\* a nonzero force was added to a sleeping Kinematic body with a velocity
C9_Witness ==
    /\ Last({"addForce"})
    /\ lastOp.arg.value # Zero
    /\ rb[1].bodyType = KINEMATIC
    /\ rb[1].isSleeping
    /\ rb[1].velocity # Zero

\* C10: mass is at least the epsilon, and inverseMass is 0 exactly when
\* bodyType is Static.
C10_InverseMassZeroIffStatic ==
    \A e \in Entities :
        /\ rb[e].mass >= MinMass
        /\ (inverseMass(rb[e]) = 0) <=> (rb[e].bodyType = STATIC)

\* mass 0 was written to a body made Kinematic before
C10_Witness ==
    /\ Last({"mass"})
    /\ lastOp.arg.value <= 0
    /\ rb[1].bodyType = KINEMATIC
    /\ rb[1].mass = MinMass

-----------------------------------------------------------------------------
(* Gravity: the gravity of the manager is written between updates of a     *)
(* falling Dynamic body                                                    *)

InitGravity ==
    /\ Scene(Far, STATIC, BOX, BOX, FALSE, TRUE)
    /\ budget = MaxGravityOps

NextGravity ==
    \/ \E g \in GravitySet : SetGravity(g)
    \/ \E dt \in {FIXED_TIMESTEP, 2 * FIXED_TIMESTEP} : Update(dt)
    \/ \E m \in {DefaultMass, 2 * DefaultMass} : WriteMass(1, m)

SpecGravity == InitGravity /\ [][NextGravity]_vars

\* C11: in every sub-step, a body that is integrated, uses gravity and had
\* no force added ends integration with the acceleration
\* gravity * gravityScale, gravity being the manager's gravity, which is
\* what a force of gravity * gravityScale * mass gives a body of that mass.
C11_ManagerGravityUsed ==
    \A k \in DOMAIN log : \A e \in Entities :
        ( /\ lastOp.name = "update"
          /\ e \in log[k].integrated
          /\ log[k].pre.rb[e].useGravity
          /\ log[k].pre.rb[e].force = Zero )
        => log[k].mid.rb[e].acceleration
              = VScale(gravity, log[k].pre.rb[e].gravityScale, 1)

-----------------------------------------------------------------------------
(* Detection: two shapes of any kinds, placed apart, touching, overlapping *)
(* and on top of each other, are tested in either order                    *)

InitDetect ==
    /\ \E p \in PlacementSet, kind1 \in {BOX, CIRCLE}, kind2 \in {BOX, CIRCLE} :
          Scene(p, STATIC, kind1, kind2, FALSE, FALSE)
    /\ budget = MaxDetectOps

\* box.size = value
SetSize(e, value) ==
    /\ Did("size", e, value)
    /\ col' = [col EXCEPT ![e].size = value]
    /\ UNCHANGED <<transform, rb, rigidbodies, colliders, accumulator,
                   fixedTimestep, collisionPairs, gravity>>

\* a.updateBounds(); b.updateBounds(); CollisionDetection.detect(a, b)
Detect(a, b) ==
    /\ budget > 0
    /\ budget' = budget - 1
    /\ lastOp' = Op("detect", a, b)
    /\ col' = [e \in DOMAIN col |->
                 IF e \in {a, b} THEN updateBounds(col[e], transform[e])
                 ELSE col[e]]
    /\ log' = <<[info |-> detect(a, b, col', transform)]>>
    /\ UNCHANGED <<transform, rb, rigidbodies, colliders, accumulator,
                   fixedTimestep, collisionPairs, gravity, lastEvent>>

\* one pass of the position solver for the pair: updateBounds of the shapes,
\* detect, and resolvePositionOnly on the manifold if there is one
PositionIteration(a, b) ==
    /\ budget > 0
    /\ budget' = budget - 1
    /\ lastOp' = Op("positionIteration", a, b)
    /\ \E C \in {[e \in DOMAIN col |-> updateBounds(col[e], transform[e])]} :
       \E info \in {detect(a, b, C, transform)} :
          /\ col' = C
          /\ log' = <<[info |-> info]>>
          /\ transform' = IF info = NoInfo THEN transform
                          ELSE resolvePositionOnly([World EXCEPT !.col = C],
                                                   info).tf
    /\ UNCHANGED <<rb, rigidbodies, colliders, accumulator,
                   fixedTimestep, collisionPairs, gravity, lastEvent>>

NextDetect ==
    \/ \E a \in Entities : PositionIteration(a, 3 - a)
    \/ \E a \in Entities : Detect(a, 3 - a)
    \/ \E p \in PlacementSet : SetPosition(2, p)
    \/ \E v \in SizeSet : SetSize(2, v)

SpecDetect == InitDetect /\ [][NextDetect]_vars

\* the last operation was detect on two shapes of kinds ka and kb
Detected(ka, kb) ==
    /\ lastOp.name = "detect"
    /\ col[lastOp.e].kind \in ka
    /\ col[lastOp.arg].kind \in kb

\* half the extent of a box on each axis
HalfSize(e) == Vec(Div(col[e].size.x, 2), Div(col[e].size.y, 2))

\* the extent of what the boxes 1 and 2 share on the x axis and on the y
\* axis, negative when they are apart
OverlapX ==
    Min(transform[1].x + HalfSize(1).x, transform[2].x + HalfSize(2).x)
    - Max(transform[1].x - HalfSize(1).x, transform[2].x - HalfSize(2).x)
OverlapY ==
    Min(transform[1].y + HalfSize(1).y, transform[2].y + HalfSize(2).y)
    - Max(transform[1].y - HalfSize(1).y, transform[2].y - HalfSize(2).y)

\* C12: Box/Box detection returns a manifold exactly when the boxes overlap
\* by more than 0 on the x axis and on the y axis.
C12_NoManifoldAtZeroOverlap ==
    Detected({BOX}, {BOX}) =>
        ((log[1].info # NoInfo) <=> (OverlapX > 0 /\ OverlapY > 0))

\* the squared length of a normal is within rounding of NormScale squared
IsUnit(n) == Abs(n.x * n.x + n.y * n.y - NormScale * NormScale) <= 4 * NormScale

\* C13: every manifold returned by detection, for every ordered pair of
\* shape kinds and every placement, has a normal of unit length and
\* penetration >= 0.
C13_UnitNormalNonNegativePenetration ==
    (lastOp.name = "detect" /\ log[1].info # NoInfo) =>
        /\ IsUnit(log[1].info.normal)
        /\ log[1].info.penetration >= 0

\* a manifold whose normal lies along neither axis
C13_Witness ==
    /\ lastOp.name = "detect"
    /\ log[1].info # NoInfo
    /\ log[1].info.normal.x # 0
    /\ log[1].info.normal.y # 0

\* what detection returns for the shapes of the last detect, taken in the
\* other order
Reversed == detect(lastOp.arg, lastOp.e, col, transform)

\* info is reverse with the shapes exchanged and the same penetration
Exchanged(info, reverse) ==
    /\ reverse # NoInfo
    /\ reverse.colliderA = info.colliderB
    /\ reverse.colliderB = info.colliderA
    /\ reverse.penetration = info.penetration

Aligned(a, b, n) ==
    /\ col[a].kind = col[b].kind
    /\ IF col[a].kind = BOX
       THEN IF n.x # 0 THEN transform[a].x = transform[b].x
            ELSE transform[a].y = transform[b].y
       ELSE transform[a].x = transform[b].x /\ transform[a].y = transform[b].y

-----------------------------------------------------------------------------
(* Raycast: distances along the ray are lengths; a hit, or NoHit *)

NoHit == [miss |-> TRUE]

RaycastHit(e, point, normal, distance) ==
    [collider |-> e, point |-> point, normal |-> normal, distance |-> distance]

\* diff * (1.0 / d) for a direction component d # 0
TimesInverse(diff, d) ==
    IF d > 0 THEN MulDiv(diff, NormScale, d) ELSE -MulDiv(diff, NormScale, -d)

\* one axis of the slab method: the ray from o with direction component d
\* against [lo, hi], narrowing [tmin, tmax]; ok is FALSE where the code
\* returns null
Slab(o, d, lo, hi, tmin, tmax) ==
    IF d = 0
    THEN [ok |-> ~(o < lo \/ o > hi), tmin |-> tmin, tmax |-> tmax]
    ELSE LET ta == TimesInverse(lo - o, d)
             tb == TimesInverse(hi - o, d)
             t1 == Min(ta, tb)
             t2 == Max(ta, tb)
         IN [ok |-> ~(Max(tmin, t1) > Min(tmax, t2)),
             tmin |-> Max(tmin, t1), tmax |-> Min(tmax, t2)]

\* a slab distance that is always the far end of the interval
SlabExit(tmin, tmax) == tmax

\* const t = tmin >= 0 ? tmin : tmax
SlabT(tmin, tmax) == IF tmin >= 0 THEN tmin ELSE tmax

\* c: the box, t: its entity's transform
raycastAABB(origin, direction, e, c, t, maxDistance) ==
    LET bounds == getBounds(c, t)
        sx == Slab(origin.x, direction.x, bounds.min.x, bounds.max.x,
                   0, maxDistance)
        sy == Slab(origin.y, direction.y, bounds.min.y, bounds.max.y,
                   sx.tmin, sx.tmax)
        d == SlabT(sy.tmin, sy.tmax)
        point == VAdd(origin, VScale(direction, d, NormScale))
        normal == IF point.x = bounds.min.x THEN Vec(-NormScale, 0)
                  ELSE IF point.x = bounds.max.x THEN Vec(NormScale, 0)
                  ELSE IF point.y = bounds.min.y THEN Vec(0, -NormScale)
                  ELSE Vec(0, NormScale)
    IN IF ~sx.ok THEN NoHit
       ELSE IF ~sy.ok THEN NoHit
       ELSE IF d < 0 \/ d > maxDistance THEN NoHit
       ELSE RaycastHit(e, point, normal, d)

\* direction is a unit vector, so a, the coefficient of t squared, is 1
raycastCircle(origin, direction, e, c, t, maxDistance) ==
    LET center == getWorldPosition(c, t)
        oc == VSub(origin, center)
        a == (Dot(direction, direction) + (NormScale * NormScale) \div 2)
                \div (NormScale * NormScale)
        b == Div(2 * Dot(oc, direction), NormScale)
        cc == Dot(oc, oc) - c.radius * c.radius
        discriminant == b * b - 4 * a * cc
    IN IF discriminant < 0 THEN NoHit
       ELSE
       LET sqrtD == Sqrt(discriminant)
           near == Div(-b - sqrtD, 2 * a)
           d == IF near < 0 THEN Div(-b + sqrtD, 2 * a) ELSE near
           point == VAdd(origin, VScale(direction, d, NormScale))
       IN IF d < 0 \/ d > maxDistance THEN NoHit
          ELSE RaycastHit(e, point, Normalize(VSub(point, center)), d)

raycastCollider(origin, direction, e, C, T, maxDistance) ==
    IF C[e].kind = BOX
    THEN raycastAABB(origin, direction, e, C[e], T[e], maxDistance)
    ELSE raycastCircle(origin, direction, e, C[e], T[e], maxDistance)

\* PhysicsManager.raycast: the loop over _colliders from index k, closest
\* being the nearest hit so far
RECURSIVE RaycastFrom(_, _, _, _, _, _, _, _, _)
RaycastFrom(k, cs, origin, dir, C, T, maxDistance, closestHit, closestDistance) ==
    IF k > Len(cs) THEN closestHit
    ELSE IF ~C[cs[k]].enabled
    THEN RaycastFrom(k + 1, cs, origin, dir, C, T, maxDistance,
                     closestHit, closestDistance)
    ELSE LET hit == raycastCollider(origin, dir, cs[k], C, T, maxDistance)
         IN IF hit # NoHit /\ hit.distance < closestDistance
            THEN RaycastFrom(k + 1, cs, origin, dir, C, T, maxDistance,
                             hit, hit.distance)
            ELSE RaycastFrom(k + 1, cs, origin, dir, C, T, maxDistance,
                             closestHit, closestDistance)

raycast(origin, direction, maxDistance, cs, C, T) ==
    RaycastFrom(1, cs, origin, Normalize(direction), C, T, maxDistance,
                NoHit, maxDistance)

\* hits.sort((a, b) => a.distance - b.distance): hit put into a sorted
\* list after the hits that are not farther
RECURSIVE InsertHit(_, _)
InsertHit(hits, hit) ==
    IF hits = <<>> THEN <<hit>>
    ELSE IF Head(hits).distance <= hit.distance
    THEN <<Head(hits)>> \o InsertHit(Tail(hits), hit)
    ELSE <<hit>> \o hits

RECURSIVE SortByDistance(_)
SortByDistance(hits) ==
    IF hits = <<>> THEN <<>>
    ELSE InsertHit(SortByDistance(SubSeq(hits, 1, Len(hits) - 1)),
                   hits[Len(hits)])

RECURSIVE CollectHits(_, _, _, _, _, _, _)
CollectHits(k, cs, origin, dir, C, T, maxDistance) ==
    IF k > Len(cs) THEN <<>>
    ELSE LET rest == CollectHits(k + 1, cs, origin, dir, C, T, maxDistance)
             hit == IF C[cs[k]].enabled
                    THEN raycastCollider(origin, dir, cs[k], C, T, maxDistance)
                    ELSE NoHit
         IN IF hit # NoHit THEN <<hit>> \o rest ELSE rest

raycastAll(origin, direction, maxDistance, cs, C, T) ==
    SortByDistance(CollectHits(1, cs, origin, Normalize(direction), C, T,
                               maxDistance))

\* getBounds() of the boxes a query visits keeps the bounds it computes
CacheBounds(cs, C, T) ==
    [e \in DOMAIN C |->
        IF e \in SeqSet(cs) /\ C[e].enabled /\ C[e].kind = BOX
           /\ C[e].bounds = NoBounds
        THEN updateBounds(C[e], T[e]) ELSE C[e]]

Ray(origin, direction, maxDistance) ==
    [origin |-> origin, direction |-> direction, maxDistance |-> maxDistance]

\* what a query does to everything but its result
Queried(name, r) ==
    /\ budget > 0
    /\ budget' = budget - 1
    /\ lastOp' = Op(name, 0, r)
    /\ col' = CacheBounds(colliders, col, transform)
    /\ UNCHANGED <<transform, rb, rigidbodies, colliders, accumulator,
                   fixedTimestep, collisionPairs, gravity, lastEvent>>

Raycast(r) ==
    /\ Queried("raycast", r)
    /\ log' = <<[hit |-> raycast(r.origin, r.direction, r.maxDistance,
                                 colliders, col, transform)]>>

RaycastAll(r) ==
    /\ Queried("raycastAll", r)
    /\ log' = <<[hits |-> raycastAll(r.origin, r.direction, r.maxDistance,
                                     colliders, col, transform)]>>

\* every coordinate and distance of the rays and shapes below is a multiple
\* of Grid
Grid == 2 * 10
RayOrigins == {Zero, Vec(1000, 0)}
RayDirections == {Vec(1, 0), Vec(-3, 0), Vec(0, 1)}
RayDistances == {800, 2000}
RaySet == {Ray(o, d, m) : o \in RayOrigins, d \in RayDirections,
                          m \in RayDistances}
RayPlacements == {Vec(1000, 0), Vec(1000, 160), Vec(1000, 200), Vec(300, 0),
                  Vec(-800, 0)}

InitRaycast ==
    /\ \E p \in RayPlacements, kind1 \in {BOX, CIRCLE}, kind2 \in {BOX, CIRCLE} :
          Scene(p, STATIC, kind1, kind2, FALSE, FALSE)
    /\ budget = MaxRaycastOps

NextRaycast ==
    \/ \E r \in RaySet : Raycast(r)
    \/ \E r \in RaySet : RaycastAll(r)
    \/ \E p \in RayPlacements : SetPosition(2, p)
    \/ \E v \in BOOLEAN : SetColliderEnabled(2, v)
    \/ UnregisterCollider(2)
    \/ RegisterCollider(2)

SpecRaycast == InitRaycast /\ [][NextRaycast]_vars

\* the ray of the last query
LastRay == lastOp.arg

\* what raycastAll returns for the ray of the last query
AllHits ==
    raycastAll(LastRay.origin, LastRay.direction, LastRay.maxDistance,
               colliders, col, transform)

\* C15: raycast returns no hit iff raycastAll, for the same ray, returns no
\* hits; otherwise the distance of its hit is the least distance among the
\* hits of raycastAll, hits at exactly maxDistance included.
C15_RaycastIsClosestOfAll ==
    lastOp.name = "raycast" =>
        IF AllHits = <<>> THEN log[1].hit = NoHit
        ELSE /\ log[1].hit # NoHit
             /\ \A i \in DOMAIN AllHits :
                   log[1].hit.distance <= AllHits[i].distance
             /\ \E i \in DOMAIN AllHits :
                   log[1].hit.distance = AllHits[i].distance

\* the point of the ray r at distance d, for a ray along an axis
RayPoint(r, d) ==
    VAdd(r.origin, VScale(Normalize(r.direction), d, NormScale))

\* p lies in the box of entity e where the entity now stands, edges
\* included; p lies on the circle of entity e
InBox(e, p) ==
    /\ Abs(p.x - transform[e].x) <= HalfSize(e).x
    /\ Abs(p.y - transform[e].y) <= HalfSize(e).y
OnCircle(e, p) ==
    (p.x - transform[e].x) * (p.x - transform[e].x)
    + (p.y - transform[e].y) * (p.y - transform[e].y)
    = col[e].radius * col[e].radius

\* the ray r meets the shape of entity e at a distance in [0, maxDistance]:
\* it has a point in the box, or a point on the circle
Intersects(r, e) ==
    \E k \in 0 .. (r.maxDistance \div Grid) :
        IF col[e].kind = BOX THEN InBox(e, RayPoint(r, k * Grid))
        ELSE OnCircle(e, RayPoint(r, k * Grid))

HitsOf(hits, e) == {i \in DOMAIN hits : hits[i].collider = e}

\* C16: raycastAll returns exactly one hit for each enabled registered shape
\* the ray intersects at a distance in [0, maxDistance] and none for any
\* other shape; the list is in order of non-decreasing distance and every
\* distance is in [0, maxDistance].
C16_RaycastAllHitsWhatTheRayMeets ==
    lastOp.name = "raycastAll" =>
        /\ \A e \in Entities :
              Cardinality(HitsOf(log[1].hits, e)) =
                 IF /\ e \in SeqSet(colliders)
                    /\ col[e].enabled
                    /\ Intersects(LastRay, e)
                 THEN 1 ELSE 0
        /\ \A i \in DOMAIN log[1].hits :
              /\ log[1].hits[i].distance >= 0
              /\ log[1].hits[i].distance <= LastRay.maxDistance
              /\ i > 1 => log[1].hits[i - 1].distance <= log[1].hits[i].distance

\* the last query cast a ray from (0,0) along +x with shape 2 a registered,
\* enabled 4x4 box at (10,0) whose bounds are those of where it stands
ScenarioC ==
    /\ lastOp.name = "raycastAll"
    /\ LastRay.origin = Zero
    /\ Normalize(LastRay.direction) = Vec(NormScale, 0)
    /\ LastRay.maxDistance >= 800
    /\ 2 \in SeqSet(colliders)
    /\ col[2].enabled
    /\ col[2].kind = BOX
    /\ col[2].size = Vec(400, 400)
    /\ transform[2] = NewTransform(Vec(1000, 0))
    /\ col[2].bounds = computeBounds(col[2], transform[2])

\* C17: a ray from (0,0) with direction (1,0) against a Box centred at (10,0)
\* with size (4,4) returns a hit with point (8,0), normal (-1,0) and distance
\* 8, for any maxDistance >= 8.
C17_ScenarioRayHitsBoxAtEight ==
    ScenarioC =>
        \E i \in DOMAIN log[1].hits :
            log[1].hits[i] = RaycastHit(2, Vec(800, 0), Vec(-NormScale, 0), 800)

\* the scenario with maxDistance exactly 8
C17_Witness ==
    /\ ScenarioC
    /\ LastRay.maxDistance = 800
    /\ HitsOf(log[1].hits, 2) # {}

\* the hits the last query returned
LastHits ==
    IF lastOp.name = "raycastAll" THEN SeqSet(log[1].hits)
    ELSE IF lastOp.name = "raycast" /\ log[1].hit # NoHit THEN {log[1].hit}
    ELSE {}

\* p lies on the side of the bounds bb whose outward unit normal is n
OnBound(bb, p, n) ==
    /\ bb.min.x <= p.x /\ p.x <= bb.max.x
    /\ bb.min.y <= p.y /\ p.y <= bb.max.y
    /\ \/ n = Vec(-NormScale, 0) /\ p.x = bb.min.x
       \/ n = Vec(NormScale, 0) /\ p.x = bb.max.x
       \/ n = Vec(0, -NormScale) /\ p.y = bb.min.y
       \/ n = Vec(0, NormScale) /\ p.y = bb.max.y

\* the ray of the last query starts strictly inside the bounds of box e
OriginInside(e) ==
    /\ col[e].bounds.min.x < LastRay.origin.x
    /\ LastRay.origin.x < col[e].bounds.max.x
    /\ col[e].bounds.min.y < LastRay.origin.y
    /\ LastRay.origin.y < col[e].bounds.max.y

\* C25: for every hit returned by the Box raycast, whatever the ray origin
\* (outside, on the boundary of, or inside the box), the hit point lies on
\* the box bound whose outward normal is the reported normal.
C25_BoxHitPointOnReportedBound ==
    \A h \in LastHits :
        col[h.collider].kind = BOX =>
            OnBound(col[h.collider].bounds, h.point, h.normal)

\* the same for rays that do not start strictly inside the box
C25_OutsideOriginHitOnReportedBound ==
    \A h \in LastHits :
        (col[h.collider].kind = BOX /\ ~OriginInside(h.collider)) =>
            OnBound(col[h.collider].bounds, h.point, h.normal)

\* C26: in every state reachable through the public body API and sub-steps,
\* a sleeping body has velocity exactly (0,0) and angular velocity exactly 0.
C26_SleepingBodyHasZeroVelocity ==
    \A e \in DOMAIN rb :
        rb[e].isSleeping =>
            /\ rb[e].velocity = Zero
            /\ rb[e].angularVelocity = 0

-----------------------------------------------------------------------------
(* Bodies are disabled, enabled, unregistered and registered between       *)
(* updates while their shapes stay registered and enabled                  *)

InitRegistry ==
    /\ \E p \in {Near, Far}, type \in {STATIC, DYNAMIC} :
          Scene(p, type, BOX, BOX, FALSE, FALSE)
    /\ budget = MaxRegistryOps

NextRegistry ==
    \/ Update(FIXED_TIMESTEP)
    \/ \E e \in Entities, v \in BOOLEAN : SetBodyEnabled(e, v)
    \/ \E e \in Entities : UnregisterRigidbody(e)
    \/ \E e \in Entities : RegisterRigidbody(e)
    \/ \E e \in Entities, v \in ApproachSet : SetVelocity(e, v)

SpecRegistry == InitRegistry /\ [][NextRegistry]_vars

\* the body of entity e is disabled or not in the registry
OutOfWorld(e) == ~rb[e].enabled \/ e \notin SeqSet(rigidbodies)

\* C27: a body that is disabled or has been unregistered is left untouched
\* by every sub-step: its velocity and its entity's position are unchanged,
\* even when a shape of the same entity is enabled, registered and colliding.
C27_BodyOutOfWorldUntouched ==
    lastOp.name = "update" =>
        \A i \in DOMAIN log : \A e \in Entities :
            OutOfWorld(e) =>
                /\ log[i].post.tf[e] = log[i].pre.tf[e]
                /\ log[i].post.rb[e].velocity = log[i].pre.rb[e].velocity

\* the same for the integration of step 1 alone
C27_BodyOutOfWorldNotIntegrated ==
    lastOp.name = "update" =>
        \A i \in DOMAIN log : \A e \in Entities :
            OutOfWorld(e) =>
                /\ log[i].mid.tf[e] = log[i].pre.tf[e]
                /\ log[i].mid.rb[e] = log[i].pre.rb[e]

\* the last operation ran at least one sub-step
AfterSubStep == lastOp.name = "update" /\ log # <<>>

\* the shape of entity e is registered and enabled
Tracked(e) == e \in SeqSet(colliders) /\ col[e].enabled

\* after a sub-step the current-contact sets of two tracked shapes name each
\* other or neither, and do so exactly when the pair map has their key
ContactSetsAgreeWithPairMap ==
    AfterSubStep =>
        \A a, b \in DOMAIN col :
            (a # b /\ Tracked(a) /\ Tracked(b)) =>
                /\ (b \in col[a].cur) = (a \in col[b].cur)
                /\ (b \in col[a].cur) = (collisionPairKey(a, b) \in collisionPairs)

\* a callback of a kind delivered to one side of a pair in a sub-step is
\* delivered to the other side in that sub-step
EnterStayDeliveredToBothSides ==
    \A i \in DOMAIN log :
        "events" \in DOMAIN log[i] =>
            \A a, b \in DOMAIN col :
                \A kind \in {"CollisionEnter", "CollisionStay",
                             "TriggerEnter", "TriggerStay"} :
                    Event(kind, a, b) \in SeqSet(log[i].events)
                        => Event(kind, b, a) \in SeqSet(log[i].events)

\* C28: after every sub-step, for any two enabled registered shapes A and B,
\* B's id is in A's current-contact set iff A's id is in B's iff the pair
\* map holds a manifold under key(A,B); hence Enter (and Stay) for a pair is
\* delivered to both sides in the same sub-step.
C28_ContactTrackingSymmetric ==
    ContactSetsAgreeWithPairMap /\ EnterStayDeliveredToBothSides

\* the first contact of the manifold info repeats its normal and penetration
ContactConsistent(info) ==
    /\ info.contact.normal = info.normal
    /\ info.contact.penetration = info.penetration

\* C29: in every manifold returned by detect, for every ordered pair of shape
\* kinds, the first contact's normal and penetration equal the manifold's
\* normal and penetration.
C29_ContactRepeatsManifold ==
    (lastOp.name = "detect" /\ log[1].info # NoInfo) =>
        ContactConsistent(log[1].info)

\* the same for every ordered pair of kinds but a circle against a box
C29_ContactRepeatsManifoldUnlessSwapped ==
    (lastOp.name = "detect" /\ log[1].info # NoInfo
     /\ ~Detected({CIRCLE}, {BOX})) =>
        ContactConsistent(log[1].info)

\* what getBounds() of every enabled registered shape returns is the bounds
\* of where its entity stands
BoundsOfCurrentPositions ==
    \A e \in DOMAIN col :
        Tracked(e) =>
            getBounds(col[e], transform[e]) = computeBounds(col[e], transform[e])

\* the solver moved an entity in a sub-step of the records
SolverMoved(records) ==
    \E i \in DOMAIN records : \E k \in DOMAIN records[i].calls :
        records[i].calls[k].moved # {}

\* C30: whenever update returns, the cached bounds of every enabled
\* registered shape equal the bounds computed from its entity's current
\* position.
C30_BoundsCurrentWhenUpdateReturns ==
    lastOp.name = "update" => BoundsOfCurrentPositions

\* an update in whose sub-steps the solver moves no entity leaves current
\* bounds current
C30_BoundsStayCurrentUnlessSolverMoved ==
    [][(lastOp'.name = "update" /\ BoundsOfCurrentPositions
        /\ ~SolverMoved(log'))
       => BoundsOfCurrentPositions']_vars

-----------------------------------------------------------------------------
(* PhysicsMaterial: friction and restitution are ratios, density is in the *)
(* units of mass                                                            *)

FrictionSet == {-50, 0, 40, 100, 150}
RestitutionSet == {-20, 20, 100, 300}
DensitySet == {-1000, 0, 1, 1000}

\* what a write through shape e's material does to the history
DidMaterial(name, e, value) ==
    /\ Did(name, e, value)
    /\ UNCHANGED <<transform, rb, rigidbodies, colliders, accumulator,
                   fixedTimestep, collisionPairs, gravity>>

\* collider.material = new PhysicsMaterial(friction, restitution, density)
NewMaterial(e, friction, restitution, density) ==
    /\ DidMaterial("material", e, 0)
    /\ col' = [col EXCEPT
                 ![e].material = PhysicsMaterial(e, friction, restitution, density)]

\* a write to the material object of shape e, seen by every shape that
\* holds the same object
WriteMaterial(e, name, value) ==
    col' = [o \in DOMAIN col |->
              IF col[o].material.id = col[e].material.id
              THEN [col[o] EXCEPT !.material =
                      IF name = "friction" THEN SetFriction(@, value)
                      ELSE IF name = "restitution" THEN SetRestitution(@, value)
                      ELSE SetDensity(@, value)]
              ELSE col[o]]

WriteFriction(e, value) ==
    /\ DidMaterial("friction", e, value)
    /\ WriteMaterial(e, "friction", value)

WriteRestitution(e, value) ==
    /\ DidMaterial("restitution", e, value)
    /\ WriteMaterial(e, "restitution", value)

WriteDensity(e, value) ==
    /\ DidMaterial("density", e, value)
    /\ WriteMaterial(e, "density", value)

InitMaterial ==
    /\ Scene(Far, STATIC, BOX, BOX, FALSE, FALSE)
    /\ budget = MaxMaterialOps

NextMaterial ==
    \/ \E e \in Entities, f \in FrictionSet, r \in RestitutionSet,
          d \in DensitySet : NewMaterial(e, f, r, d)
    \/ \E e \in Entities, v \in FrictionSet : WriteFriction(e, v)
    \/ \E e \in Entities, v \in RestitutionSet : WriteRestitution(e, v)
    \/ \E e \in Entities, v \in DensitySet : WriteDensity(e, v)

SpecMaterial == InitMaterial /\ [][NextMaterial]_vars

\* C18: in every reachable state of a material, after construction with any
\* arguments and after any writes to friction, restitution and density,
\* friction and restitution are in [0,1] and density is > 0.
C18_MaterialInRange ==
    \A e \in Entities :
        /\ col[e].material.friction >= 0
        /\ col[e].material.friction <= RatioScale
        /\ col[e].material.restitution >= 0
        /\ col[e].material.restitution <= RatioScale
        /\ col[e].material.density > 0

-----------------------------------------------------------------------------
\* C19: within every sub-step the narrow phase runs where integration left
\* the entities, and at every detection call of the sub-step (the narrow
\* phase, each re-detection of the position solver, the re-detection of the
\* velocity solver) the cached bounds of both shapes are those computed from
\* where their entities stand.
C19_BoundsCurrentAtEveryDetection ==
    \A k \in DOMAIN log :
        lastOp.name = "update" =>
            \A i \in DOMAIN log[k].probes :
                /\ log[k].probes[i].current
                /\ log[k].probes[i].phase = "narrow"
                      => log[k].probes[i].tf = log[k].mid.tf

\* the resolver calls of sub-step k named op, made for the pair of a and b
CallsFor(k, op, a, b) ==
    {i \in DOMAIN log[k].calls :
        /\ log[k].calls[i].op = op
        /\ {log[k].calls[i].a, log[k].calls[i].b} = {a, b}}

-----------------------------------------------------------------------------
\* the velocity of b relative to a along n, in the units of velocity
AlongNormal(bodies, a, b, n) ==
    Div(Dot(VSub(bodies[b].velocity, bodies[a].velocity), n), NormScale)

\* what rounding may add to a velocity worked out from the velocity v: three
\* units and one part in 500
Rounding(v) == 3 + Abs(v) \div 500

\* C21: resolve on a pair with at least one Dynamic body: if the relative
\* velocity along the normal is > 0 no velocity changes; otherwise the
\* relative velocity along the normal becomes -e times what it was, e the
\* lesser restitution of the two shapes, to within rounding.
C21_ImpulseReversesNormalVelocity ==
    [][(/\ lastOp'.name = "resolve"
        /\ \E o \in Entities : rb[o].bodyType = DYNAMIC) =>
          LET a == lastOp'.e
              b == lastOp'.arg
              n == detect(a, b, col, transform).normal
              e == Min(col[a].material.restitution, col[b].material.restitution)
              before == AlongNormal(rb, a, b, n)
              after == AlongNormal(rb', a, b, n)
          IN IF Dot(VSub(rb[b].velocity, rb[a].velocity), n) > 0
             THEN \A o \in Entities : rb'[o].velocity = rb[o].velocity
             ELSE Abs(after * RatioScale + e * before)
                     <= Rounding(before) * RatioScale]_vars

-----------------------------------------------------------------------------
(* Three shapes: boxes with bodies, the one of the least id Dynamic, with  *)
(* ids as the counter of Collider may have given them                      *)

IdSet == {1, 2, 11, 12}
Least(S) == CHOOSE x \in S : \A y \in S : x <= y
Greatest(S) == CHOOSE x \in S : \A y \in S : y <= x
SeqOf(S) ==
    <<Least(S), CHOOSE x \in S : x # Least(S) /\ x # Greatest(S), Greatest(S)>>

\* the shapes of ids S: the least at the origin, the middle one at p2, the
\* greatest at p3
Scene3(S, p2, p3) ==
    /\ transform = [e \in S |->
                      IF e = Least(S) THEN NewTransform(Zero)
                      ELSE IF e = Greatest(S) THEN NewTransform(p3)
                      ELSE NewTransform(p2)]
    /\ rb = [e \in S |->
               [NewBody EXCEPT
                   !.useGravity = FALSE,
                   !.bodyType = IF e = Least(S) THEN DYNAMIC ELSE STATIC]]
    /\ col = [e \in S |-> [NewCollider(BOX) EXCEPT !.size = BoxSize]]
    /\ rigidbodies = SeqOf(S)
    /\ colliders = SeqOf(S)
    /\ accumulator = 0
    /\ fixedTimestep = FIXED_TIMESTEP
    /\ collisionPairs = {}
    /\ gravity = Vec(0, GravityY)
    /\ log = <<>>
    /\ lastEvent = [p \in S \X S |-> "none"]
    /\ lastOp = Op("new", 0, 0)

InitPairs ==
    /\ \E S \in {T \in SUBSET IdSet : Cardinality(T) = 3},
          p2 \in {Near, Far}, p3 \in {Vec(0, 300), Vec(300, 300)} :
          Scene3(S, p2, p3)
    /\ budget = MaxPairOps

NextPairs ==
    \/ Update(FIXED_TIMESTEP)
    \/ \E e \in DOMAIN col : RegisterCollider(e)
    \/ \E e \in DOMAIN col : UnregisterCollider(e)
    \/ \E e \in DOMAIN col, v \in BOOLEAN : SetColliderEnabled(e, v)
    \/ \E e \in DOMAIN col : SetPosition(e, Near)

SpecPairs == InitPairs /\ [][NextPairs]_vars

-----------------------------------------------------------------------------
\* twice the midpoint of what the boxes 1 and 2 share on the x axis and on
\* the y axis
TwiceMidX ==
    Max(transform[1].x - HalfSize(1).x, transform[2].x - HalfSize(2).x)
    + Min(transform[1].x + HalfSize(1).x, transform[2].x + HalfSize(2).x)
TwiceMidY ==
    Max(transform[1].y - HalfSize(1).y, transform[2].y - HalfSize(2).y)
    + Min(transform[1].y + HalfSize(1).y, transform[2].y + HalfSize(2).y)

\* C23: for overlapping boxes the contact point of the Box/Box manifold is
\* the midpoint of the overlap region on both axes, to within the rounding of
\* a half.
C23_ContactPointIsOverlapMidpoint ==
    (Detected({BOX}, {BOX}) /\ OverlapX > 0 /\ OverlapY > 0) =>
        /\ log[1].info # NoInfo
        /\ Abs(2 * log[1].info.contact.point.x - TwiceMidX) <= 1
        /\ Abs(2 * log[1].info.contact.point.y - TwiceMidY) <= 1

-----------------------------------------------------------------------------
\* of the shapes 1 and 2, the box and the circle, when they are one of each
TheBox == CHOOSE e \in Entities : col[e].kind = BOX
TheCircle == CHOOSE e \in Entities : col[e].kind = CIRCLE

\* the centre of the circle is in the box, edges included
CentreInBox ==
    /\ {col[e].kind : e \in Entities} = {BOX, CIRCLE}
    /\ Abs(transform[TheCircle].x - transform[TheBox].x) <= HalfSize(TheBox).x
    /\ Abs(transform[TheCircle].y - transform[TheBox].y) <= HalfSize(TheBox).y

\* how far the centre of the circle is from the left, right, top and bottom
\* edge of the box
EdgeDistances ==
    LET dx == transform[TheCircle].x - transform[TheBox].x
        dy == transform[TheCircle].y - transform[TheBox].y
    IN <<HalfSize(TheBox).x + dx, HalfSize(TheBox).x - dx,
         HalfSize(TheBox).y + dy, HalfSize(TheBox).y - dy>>

EdgeNormals == <<Vec(-1, 0), Vec(1, 0), Vec(0, -1), Vec(0, 1)>>

\* the outward normal of the nearest edge: the first edge, in the order
\* left, right, top, bottom, that no edge is nearer than
Outward ==
    LET first == CHOOSE i \in 1..4 :
                    /\ \A j \in 1..4 : EdgeDistances[i] <= EdgeDistances[j]
                    /\ \A j \in 1..(i - 1) : EdgeDistances[j] > EdgeDistances[i]
    IN EdgeNormals[first]

\* C24: in one pass of the position solver on a box and a circle whose
\* centre is in the box, in either argument order, the normal taken from the
\* box to the circle is the outward normal of the edge nearest to the centre
\* (ties in the order left, right, top, bottom), and the correction moves
\* the circle, relative to the box, along that normal.
C24_CircleLeavesThroughNearestEdge ==
    [][(lastOp'.name = "positionIteration" /\ CentreInBox) =>
          LET info == log'[1].info
              sign == IF info.colliderA = TheBox THEN 1 ELSE -1
              shift == VSub(VSub(Vec(transform'[TheCircle].x,
                                     transform'[TheCircle].y),
                                 Vec(transform[TheCircle].x,
                                     transform[TheCircle].y)),
                            VSub(Vec(transform'[TheBox].x, transform'[TheBox].y),
                                 Vec(transform[TheBox].x, transform[TheBox].y)))
          IN /\ info # NoInfo
             /\ info.normal = VScale(Outward, sign * NormScale, 1)
             /\ \E k \in 1..(2 * CircleRadius) :
                   shift = VScale(Outward, k, 1)]_vars

\* a pass on a circle and a box, in this order, the centre of the circle
\* in the box and nearer to its top edge than to the others
C24_Witness ==
    /\ lastOp.name = "positionIteration"
    /\ col[lastOp.e].kind = CIRCLE
    /\ col[lastOp.arg].kind = BOX
    /\ log[1].info # NoInfo
    /\ log[1].info.normal = Vec(0, NormScale)
    /\ log[1].info.penetration = CircleRadius

====
